---- MODULE Spec2Model ----
(***************************************************************************)
(* A model of django-url-resolver (url_resolver/main.py): the discovery    *)
(* walk of Project.__init__, the worker pool of Project.find_urls, the     *)
(* lookup loop of ProjectSetting.find_urls and the report printed by       *)
(* resolve_project_urls.                                                   *)
(*                                                                         *)
(* Strings are sequences of tokens: a file name is <<"dev_", "settings",   *)
(* ".py">>, a path is a sequence of names below the working directory, a   *)
(* URL is <<"http:", "//", "h", "/", "a">>.  No token other than           *)
(* "settings" contains the text "settings", and none other than "urls"     *)
(* the text "urls", so a glob pattern *x* matches a name exactly when one  *)
(* of its tokens is x.                                                     *)
(***************************************************************************)
EXTENDS Integers, Sequences, FiniteSets, TLC

VARIABLES
    fs,                 \* the files and directories below the working directory
    args,               \* the parsed command line (main): its urlconf
    pc,                 \* position of the main process
    todo,               \* what the running rglob generator has not yielded yet
    project_settings,   \* Project._project_settings
    urlconfs,           \* Project._urlconfs
    searched_urls,      \* searched_urls of Project.find_urls, in the order the set yields
    next_setting,       \* index of the for loop of Project.find_urls
    workers,            \* the pool's worker processes
    inqueue,            \* tasks handed to the pool and not taken yet
    outqueue,           \* outcomes posted by the workers and not collected yet
    configured,         \* ProjectSetting.configured of the copy each task ran on
    task_results,       \* task_results of Project.find_urls
    possible_url_paths, \* the merged result of Project.find_urls
    msg,                \* what resolve_project_urls printed, piece by piece
    exc                 \* the exception that ended the main process, if any

vars == <<fs, args, pc, todo, project_settings, urlconfs, searched_urls, next_setting,
          workers, inqueue, outqueue, configured, task_results, possible_url_paths, msg, exc>>

\* An optional value (an attribute that may be missing, an argument that may be
\* None) is <<>> when absent and <<value>> when present.
None == <<>>
Some(x) == <<x>>

----------------------------------------------------------------------------
(* Bounds of the model.                                                    *)

\* Files and directories in the working directory
MaxEntries == 2
\* URLs on the command line
MaxUrls == 2

----------------------------------------------------------------------------
(* Names, paths and the directory tree.                                    *)

SettingsPy == <<"settings", ".py">>
DevSettingsPy == <<"dev_", "settings", ".py">>
SettingsTxt == <<"settings", ".txt">>
SettingsDir == <<"settings">>
InitPy == <<"__init__", ".py">>
UrlsPy == <<"urls", ".py">>
UrlsDir == <<"urls">>
TestsDir == <<"tests">>

File(path) == [path |-> path, dir |-> FALSE]
Dir(path) == [path |-> path, dir |-> TRUE]

\* The entries a working directory is drawn from.
Universe ==
    { File(<<SettingsPy>>), File(<<DevSettingsPy>>), File(<<SettingsTxt>>),
      Dir(<<SettingsDir>>), File(<<SettingsDir, DevSettingsPy>>),
      File(<<SettingsDir, InitPy>>),
      Dir(<<TestsDir>>), File(<<TestsDir, SettingsPy>>), File(<<TestsDir, UrlsPy>>),
      File(<<UrlsPy>>), Dir(<<UrlsDir>>), File(<<UrlsDir, UrlsPy>>) }

Parent(path) == SubSeq(path, 1, Len(path) - 1)

\* A tree holds the directory of everything it holds.
IsTree(t) == \A e \in t : Len(e.path) > 1 => Dir(Parent(e.path)) \in t

RECURSIVE SubsetsUpTo(_, _)
SubsetsUpTo(S, n) ==
    IF n = 0 THEN {{}}
    ELSE LET smaller == SubsetsUpTo(S, n - 1)
         IN  smaller \cup { s \cup {e} : s \in smaller, e \in S }

Trees == { t \in SubsetsUpTo(Universe, MaxEntries) : IsTree(t) }

\* settings.DISREGARDED_PATHS, relative to the working directory
DISREGARDED_PATHS == << <<"build">>, <<"tests">> >>

\* Project._disregarded_paths
DisregardedPaths == { << DISREGARDED_PATHS[i] >> : i \in DOMAIN DISREGARDED_PATHS }

\* utils.is_relative_to: path is other or lies below it
IsRelativeTo(path, other) ==
    /\ Len(other) <= Len(path)
    /\ SubSeq(path, 1, Len(other)) = other

\* Project._partof_disregarded_paths
PartofDisregardedPaths(path) == \E d \in DisregardedPaths : IsRelativeTo(path, d)

\* fnmatch of the pattern *word* on a name
Matches(name, word) == \E i \in DOMAIN name : name[i] = word

Name(path) == path[Len(path)]

HasSuffix(name) == Len(name) > 1 /\ name[Len(name)] \in {".py", ".txt"}

\* pathlib's suffix and stem
Suffix(path) == IF HasSuffix(Name(path)) THEN Name(path)[Len(Name(path))] ELSE ""
Stem(path) ==
    IF HasSuffix(Name(path)) THEN SubSeq(Name(path), 1, Len(Name(path)) - 1)
    ELSE Name(path)

\* pathlib's rglob(*word*) from the directory root: every entry below root whose name matches
RGlob(t, root, word) ==
    { e \in t : /\ Len(e.path) > Len(root)
                /\ IsRelativeTo(e.path, root)
                /\ Matches(Name(e.path), word) }

\* path.rglob('*.py'): every entry below root with the suffix .py
RGlobPy(t, root) ==
    { e \in t : /\ Len(e.path) > Len(root)
                /\ IsRelativeTo(e.path, root)
                /\ Suffix(e.path) = ".py" }

\* url_path.glob('*.py'): the entries directly in root with the suffix .py
GlobPy(t, root) == { e \in RGlobPy(t, root) : Len(e.path) = Len(root) + 1 }

\* utils.to_dotted_path: the path without its suffix, one component per dot
ToDottedPath(path) == [i \in 1..Len(path) |-> IF i = Len(path) THEN Stem(path) ELSE path[i]]

\* The orders a generator may yield the elements of a set in
Orderings(S) ==
    { q \in [1..Cardinality(S) -> S] : \A i, j \in DOMAIN q : q[i] = q[j] => i = j }

\* rglob walks the tree from the top: what matches in a directory is yielded before
\* what matches in the directories below it
Yieldable(e, remaining) ==
    \A other \in remaining :
        Len(other.path) < Len(e.path) => ~IsRelativeTo(Parent(e.path), Parent(other.path))

\* ProjectSetting.__init__
ProjectSetting(setting_path) ==
    [setting_path |-> setting_path, dotted_path |-> ToDottedPath(setting_path)]

----------------------------------------------------------------------------
(* The command line.                                                       *)

UrlName == <<"home">>
UrlAbs == <<"http:", "//", "h", "/", "a">>
UrlBare == <<"http:", "//", "h">>

\* The URLs a command line is drawn from: a URL name, a URL, a URL with no path
Urls == {UrlName, UrlAbs, UrlBare}

\* The value --conf is drawn from, besides the empty string
ConfGiven == << <<"api">>, <<"urls">> >>

RECURSIVE SeqsUpTo(_, _)
SeqsUpTo(S, n) ==
    IF n = 0 THEN {<<>>}
    ELSE LET shorter == SeqsUpTo(S, n - 1)
         IN  shorter \cup { Append(q, e) : q \in shorter, e \in S }

\* argparse: --conf defaults to None.  The other fields of the command line are read
\* once each and drawn where they are read: urls by Project.find_urls, the flags
\* filename and view by the report.
Args == [urlconf : {None, Some(<<>>), Some(ConfGiven)}]

\* argparse: one URL or more (nargs='+')
UrlLists == SeqsUpTo(Urls, MaxUrls) \ {<<>>}

\* argparse: the two flags of the report
Flags == [filename : BOOLEAN, view : BOOLEAN]

\* Python's truth value of an optional string or list: None and the empty one are false
Truthy(x) == x # None /\ x[1] # <<>>

Range(q) == { q[i] : i \in DOMAIN q }

----------------------------------------------------------------------------
(* urllib.parse.urlparse on token sequences.                               *)

RECURSIVE FirstSlash(_, _)
FirstSlash(q, i) ==
    IF i > Len(q) \/ q[i] = "/" THEN i ELSE FirstSlash(q, i + 1)

UrlParse(url) ==
    LET rest == IF Len(url) >= 1 /\ url[1] = "http:" THEN Tail(url) ELSE url
    IN  IF Len(rest) >= 1 /\ rest[1] = "//"
        THEN LET k == FirstSlash(rest, 2)
             IN  [netloc |-> SubSeq(rest, 2, k - 1), path |-> SubSeq(rest, k, Len(rest))]
        ELSE [netloc |-> <<>>, path |-> rest]

----------------------------------------------------------------------------
(* What the framework answers.                                             *)

\* A class-based view behind a decorator, and a builtin inspect finds no source file for
DetailClass ==
    [view_class |-> None, wrapped |-> None, file |-> Some("app/views.py"), line |-> 20]
DetailView ==
    [view_class |-> Some(DetailClass), wrapped |-> None, file |-> Some("base.py"), line |-> 2]
Decorated ==
    [view_class |-> None, wrapped |-> Some(DetailView), file |-> Some("decorators.py"),
     line |-> 1]
BuiltinFunction ==
    [view_class |-> None, wrapped |-> None, file |-> None, line |-> 0]

\* ResolverMatch objects resolve() may return
Views ==
    { [func_path |-> <<"app", "views", "Detail">>, view_name |-> "detail", route |-> "a/",
       func |-> Decorated],
      [func_path |-> <<"len">>, view_name |-> "len", route |-> "", func |-> BuiltinFunction] }

\* _get_func
RECURSIVE GetFunc(_)
GetFunc(func) ==
    IF func.view_class # None THEN GetFunc(func.view_class[1])
    ELSE IF func.wrapped # None THEN GetFunc(func.wrapped[1])
    ELSE func

\* The exceptions django.setup() may raise: those configure() catches, and one it does not
ConfigureCaught == {"AttributeError", "ImproperlyConfigured", "AppRegistryNotReady"}
ConfigureRaises == ConfigureCaught \cup {"ImportError"}

\* The paths reverse() may return
ReversePaths == { <<"/", "home">> }

\* The exceptions resolve() may raise: those find_urls catches, and one it does not
ResolveCaught == {"AttributeError", "Resolver404", "ImproperlyConfigured"}
ResolveRaises == ResolveCaught \cup {"ImportError"}

\* resolve(url_path, urlconf): the root pattern of a urlconf matches the leading slash,
\* so a path without one matches nothing
Rooted(url_path) == Len(url_path) >= 1 /\ url_path[1] = "/"
ResolveOutcomes(url_path) == IF Rooted(url_path) THEN ResolveRaises ELSE {"Resolver404"}
ResolveMatches(url_path) == IF Rooted(url_path) THEN Views ELSE {}

----------------------------------------------------------------------------
(* Python dicts keyed by URL, in insertion order.                          *)

Keys(d) == { d[i].url : i \in DOMAIN d }

\* d[entry.url] = entry
DictSet(d, entry) ==
    IF entry.url \in Keys(d)
    THEN [i \in DOMAIN d |-> IF d[i].url = entry.url THEN entry ELSE d[i]]
    ELSE Append(d, entry)

\* itertools.product(searched_urls, urlconfs)
Product(us, cs) ==
    [k \in 1..(Len(us) * Len(cs)) |->
        [url |-> us[((k - 1) \div Len(cs)) + 1], urlconf |-> cs[((k - 1) % Len(cs)) + 1]]]

----------------------------------------------------------------------------
(* Project.__init__: the discovery walk.                                   *)

Init ==
    /\ fs \in Trees
    /\ args \in Args
    /\ pc = "main"
    /\ todo = {}
    /\ project_settings = <<>>
    /\ urlconfs = <<>>
    /\ searched_urls = <<>>
    /\ next_setting = 0
    /\ workers = <<>>
    /\ inqueue = <<>>
    /\ outqueue = <<>>
    /\ configured = <<>>
    /\ task_results = <<>>
    /\ possible_url_paths = <<>>
    /\ msg = <<>>
    /\ exc = ""

\* resolve_project_urls without its urlconfs argument
UrlconfsArgument_Dropped == None

\* The urlconfs argument resolve_project_urls gives Project
UrlconfsArgument == IF Truthy(args.urlconf) THEN Some(<<args.urlconf[1]>>) ELSE None

\* main, resolve_project_urls and Project.__init__ up to the first rglob
Main ==
    /\ pc = "main"
    /\ todo' = RGlob(fs, <<>>, "settings")
    /\ pc' = "get_project_settings"
    /\ UNCHANGED <<fs, args, project_settings, urlconfs, searched_urls, next_setting,
                   workers, inqueue, outqueue, configured, task_results, possible_url_paths,
                   msg, exc>>

\* What one path yielded by rglob('*settings*') adds to project_settings
SettingsOf(e, inner) ==
    IF PartofDisregardedPaths(e.path) THEN <<>>
    ELSE IF ~e.dir /\ Suffix(e.path) = ".py" THEN <<ProjectSetting(e.path)>>
    ELSE IF e.dir THEN [k \in DOMAIN inner |-> ProjectSetting(inner[k].path)]
    ELSE <<>>

\* The files the generator of the directory branch keeps
SettingFilesIn(e) == { f \in RGlobPy(fs, e.path) : Stem(f.path) # <<"__init__">> }

\* Project._get_project_settings: one turn of its loop
GetProjectSettings ==
    /\ pc = "get_project_settings"
    /\ \E e \in todo :
        \E inner \in Orderings(IF e.dir THEN SettingFilesIn(e) ELSE {}) :
            /\ Yieldable(e, todo)
            /\ project_settings' = project_settings \o SettingsOf(e, inner)
            /\ todo' = todo \ {e}
    /\ UNCHANGED <<fs, args, pc, urlconfs, searched_urls, next_setting, workers, inqueue,
                   outqueue, configured, task_results, possible_url_paths, msg, exc>>

\* What Project.__init__ does with the urlconfs it was given
GivenUrlconfs(given) == IF Truthy(given) THEN given[1] ELSE <<>>

\* self._urlconfs = urlconfs or self._get_urlconfs_paths()
InitUrlconfs ==
    /\ pc = "get_project_settings"
    /\ todo = {}
    /\ urlconfs' = GivenUrlconfs(UrlconfsArgument)
    /\ IF Truthy(UrlconfsArgument)
       THEN pc' = "find_urls" /\ todo' = {}
       ELSE pc' = "get_urlconfs_paths" /\ todo' = RGlob(fs, <<>>, "urls")
    /\ UNCHANGED <<fs, args, project_settings, searched_urls, next_setting, workers,
                   inqueue, outqueue, configured, task_results, possible_url_paths, msg,
                   exc>>

\* What one path yielded by rglob('*urls*') adds to urlconfs
UrlconfsOf(e, inner) ==
    IF PartofDisregardedPaths(e.path) THEN <<>>
    ELSE IF e.dir THEN [k \in DOMAIN inner |-> ToDottedPath(inner[k].path)]
    ELSE IF ~e.dir /\ Suffix(e.path) = ".py" THEN <<ToDottedPath(e.path)>>
    ELSE <<>>

\* Project._get_urlconfs_paths: one turn of its loop
GetUrlconfsPaths ==
    /\ pc = "get_urlconfs_paths"
    /\ \E e \in todo :
        \E inner \in Orderings(IF e.dir THEN GlobPy(fs, e.path) ELSE {}) :
            /\ Yieldable(e, todo)
            /\ urlconfs' = urlconfs \o UrlconfsOf(e, inner)
            /\ todo' = todo \ {e}
    /\ UNCHANGED <<fs, args, pc, project_settings, searched_urls, next_setting, workers,
                   inqueue, outqueue, configured, task_results, possible_url_paths, msg,
                   exc>>

\* Project.__init__ returns
InitDone ==
    /\ pc = "get_urlconfs_paths"
    /\ todo = {}
    /\ pc' = "find_urls"
    /\ UNCHANGED <<fs, args, todo, project_settings, urlconfs, searched_urls, next_setting,
                   workers, inqueue, outqueue, configured, task_results, possible_url_paths,
                   msg, exc>>

----------------------------------------------------------------------------
(* Project.find_urls: the pool.                                            *)

\* A worker process waiting for a task.  settings_modules holds the values
\* DJANGO_SETTINGS_MODULE has taken in the process.
Idle(modules) ==
    [state |-> "idle", settings_modules |-> modules, task |-> 0, pairs |-> <<>>, i |-> 0,
     append_slash |-> FALSE, results |-> <<>>, error |-> ""]

\* multiprocessing.Pool(processes): its worker processes, or none when it refuses
PoolWorkers(processes) == [w \in 1..processes |-> Idle({})]

\* searched_urls = set(searched_urls), and
\* pool = multiprocessing.Pool(processes=len(self._project_settings))
FindUrls ==
    /\ pc = "find_urls"
    /\ \E urls \in UrlLists : searched_urls' \in Orderings(Range(urls))
    /\ IF Len(project_settings) < 1
       THEN /\ pc' = "raised"
            /\ exc' = "ValueError"
            /\ UNCHANGED <<workers, configured, next_setting>>
       ELSE /\ workers' = PoolWorkers(Len(project_settings))
            /\ configured' = [k \in DOMAIN project_settings |-> FALSE]
            /\ next_setting' = 1
            /\ pc' = "apply"
            /\ exc' = exc
    /\ UNCHANGED <<fs, args, todo, project_settings, urlconfs, inqueue, outqueue,
                   task_results, possible_url_paths, msg>>

\* pool.apply(setting.find_urls, ...): the task is handed to the pool
Apply ==
    /\ pc = "apply"
    /\ next_setting <= Len(project_settings)
    /\ inqueue' = Append(inqueue, next_setting)
    /\ pc' = "get"
    /\ UNCHANGED <<fs, args, todo, project_settings, urlconfs, searched_urls, next_setting,
                   workers, outqueue, configured, task_results, possible_url_paths, msg,
                   exc>>

\* pool.apply blocks until the task's outcome arrives, and raises what the task raised
Get ==
    /\ pc = "get"
    /\ outqueue # <<>>
    /\ outqueue' = Tail(outqueue)
    /\ IF Head(outqueue).error = ""
       THEN /\ task_results' = Append(task_results, Head(outqueue).value)
            /\ next_setting' = next_setting + 1
            /\ pc' = "apply"
            /\ exc' = exc
       ELSE /\ pc' = "raised"
            /\ exc' = Head(outqueue).error
            /\ UNCHANGED <<task_results, next_setting>>
    /\ UNCHANGED <<fs, args, todo, project_settings, urlconfs, searched_urls, workers,
                   inqueue, configured, possible_url_paths, msg>>

\* A worker of the pool takes the next task: any idle one may.  Among workers in the
\* same state, which differ in nothing but their number, the first stands for all.
WorkerTake(w) ==
    /\ workers[w].state = "idle"
    /\ \A v \in 1..(w - 1) : workers[v] # workers[w]
    /\ inqueue # <<>>
    /\ inqueue' = Tail(inqueue)
    /\ workers' = [workers EXCEPT ![w] =
           [@ EXCEPT !.state = "configure", !.task = Head(inqueue),
                     !.pairs = Product(searched_urls, urlconfs), !.i = 1]]
    /\ UNCHANGED <<fs, args, pc, todo, project_settings, urlconfs, searched_urls,
                   next_setting, outqueue, configured, task_results, possible_url_paths,
                   msg, exc>>

\* find_urls without its test of self.configured
AfterConfigure_NoTest(is_configured) == "loop"

\* Where find_urls goes once configure() returned
AfterConfigure(is_configured) == IF is_configured THEN "loop" ELSE "return"

\* What configure() does with an exception of django.setup()
ConfigureHandles(e) == e \in ConfigureCaught

\* ProjectSetting.configure, and the test of self.configured in find_urls
WorkerConfigure(w) ==
    /\ workers[w].state = "configure"
    /\ LET me == workers[w]
           dotted == project_settings[me.task].dotted_path
           loaded == [me EXCEPT !.settings_modules = @ \cup {dotted}]
       IN  \/ \E append_slash \in BOOLEAN :
                /\ configured' = [configured EXCEPT ![me.task] = TRUE]
                /\ workers' = [workers EXCEPT ![w] =
                       [loaded EXCEPT !.state = AfterConfigure(TRUE),
                                      !.append_slash = append_slash]]
           \/ \E e \in ConfigureRaises :
                /\ configured' = configured
                /\ workers' = [workers EXCEPT ![w] =
                       IF ConfigureHandles(e)
                       THEN [loaded EXCEPT !.state = AfterConfigure(FALSE)]
                       ELSE [loaded EXCEPT !.state = "raised", !.error = e]]
    /\ UNCHANGED <<fs, args, pc, todo, project_settings, urlconfs, searched_urls,
                   next_setting, inqueue, outqueue, task_results, possible_url_paths, msg,
                   exc>>

\* The url_path of one turn of the loop, before APPEND_SLASH: an optional path,
\* None when reverse() raised
UrlPaths(url) ==
    IF UrlParse(url).netloc = <<>>
    THEN {None} \cup { Some(p) : p \in ReversePaths }
    ELSE { Some(UrlParse(url).path) }

\* enforce slash ending url if project configured as is
AppendSlash(url_path) ==
    IF url_path[Len(url_path)] # "/" THEN Append(url_path, "/") ELSE url_path

\* What find_urls does with an exception of resolve()
ResolveHandles(e) == e \in ResolveCaught

\* The entry find_urls stores for a resolved URL
Entry(url, urlconf, view, setting) ==
    [url |-> url,
     filename |-> GetFunc(view.func).file[1],
     line |-> GetFunc(view.func).line,
     urlconf |-> urlconf,
     index |-> view.view_name,
     route |-> view.route,
     view_name |-> view.func_path[Len(view.func_path)],
     setting |-> setting.dotted_path]

Raise(me, e) == [me EXCEPT !.state = "raised", !.error = e]
Continue(me) == [me EXCEPT !.i = @ + 1]

\* ProjectSetting.find_urls: one turn of the loop over the product
WorkerLoop(w) ==
    /\ workers[w].state = "loop"
    /\ workers[w].i <= Len(workers[w].pairs)
    /\ LET me == workers[w]
           pair == me.pairs[me.i]
       IN  \E reversed \in UrlPaths(pair.url) :
             IF reversed = None
             THEN workers' = [workers EXCEPT ![w] = Raise(me, "NoReverseMatch")]
             ELSE IF me.append_slash /\ reversed[1] = <<>>
             THEN workers' = [workers EXCEPT ![w] = Raise(me, "IndexError")]
             ELSE LET url_path == IF me.append_slash THEN AppendSlash(reversed[1])
                                  ELSE reversed[1]
                  IN
               \/ \E e \in ResolveOutcomes(url_path) :
                    workers' = [workers EXCEPT ![w] =
                        IF ResolveHandles(e) THEN Continue(me) ELSE Raise(me, e)]
               \/ \E view \in ResolveMatches(url_path) :
                    workers' = [workers EXCEPT ![w] =
                        IF GetFunc(view.func).file = None
                        THEN Raise(me, "TypeError")
                        ELSE Continue([me EXCEPT !.results =
                                 DictSet(@, Entry(pair.url, pair.urlconf, view,
                                                  project_settings[me.task]))])]
    /\ UNCHANGED <<fs, args, pc, todo, project_settings, urlconfs, searched_urls,
                   next_setting, inqueue, outqueue, configured, task_results,
                   possible_url_paths, msg, exc>>

\* find_urls returns its results, and the worker posts them
WorkerReturn(w) ==
    /\ \/ workers[w].state = "return"
       \/ workers[w].state = "loop" /\ workers[w].i > Len(workers[w].pairs)
    /\ outqueue' = Append(outqueue, [error |-> "", value |-> workers[w].results])
    /\ workers' = [workers EXCEPT ![w] = Idle(@.settings_modules)]
    /\ UNCHANGED <<fs, args, pc, todo, project_settings, urlconfs, searched_urls,
                   next_setting, inqueue, configured, task_results, possible_url_paths, msg,
                   exc>>

\* find_urls raised, and the worker posts the exception
WorkerRaise(w) ==
    /\ workers[w].state = "raised"
    /\ outqueue' = Append(outqueue, [error |-> workers[w].error, value |-> <<>>])
    /\ workers' = [workers EXCEPT ![w] = Idle(@.settings_modules)]
    /\ UNCHANGED <<fs, args, pc, todo, project_settings, urlconfs, searched_urls,
                   next_setting, inqueue, configured, task_results, possible_url_paths, msg,
                   exc>>

\* pool.close() and pool.join(): the workers exit
CloseJoin ==
    /\ pc = "apply"
    /\ next_setting > Len(project_settings)
    /\ workers' = [w \in DOMAIN workers |-> [workers[w] EXCEPT !.state = "exited"]]
    /\ pc' = "merge"
    /\ UNCHANGED <<fs, args, todo, project_settings, urlconfs, searched_urls, next_setting,
                   inqueue, outqueue, configured, task_results, possible_url_paths, msg,
                   exc>>

\* merge results by urls
RECURSIVE MergeDict(_, _, _)
MergeDict(results, task_result, k) ==
    IF k > Len(task_result) THEN results
    ELSE MergeDict(DictSet(results, task_result[k]), task_result, k + 1)

RECURSIVE MergeResults(_, _, _)
MergeResults(results, results_of_tasks, k) ==
    IF k > Len(results_of_tasks) THEN results
    ELSE MergeResults(MergeDict(results, results_of_tasks[k], 1), results_of_tasks, k + 1)

Merge ==
    /\ pc = "merge"
    /\ possible_url_paths' = MergeResults(<<>>, task_results, 1)
    /\ pc' = "report"
    /\ UNCHANGED <<fs, args, todo, project_settings, urlconfs, searched_urls, next_setting,
                   workers, inqueue, outqueue, configured, task_results, msg, exc>>

----------------------------------------------------------------------------
(* resolve_project_urls: the report.  The message is a sequence of pieces. *)

Header(url) == [piece |-> "header", url |-> url, text |-> <<>>]
Text(fields) == [piece |-> "text", url |-> <<>>, text |-> fields]
NotFound == [piece |-> "URL couldn't be found.", url |-> <<>>, text |-> <<>>]

\* What follows the header of a block
Body(a, found) ==
    IF a.filename THEN Text(<<"+", found.line, found.filename>>)
    ELSE IF a.view THEN Text(<<found.view_name>>)
    ELSE Text(<<"route", found.route, "filename", found.filename, found.line,
                "index", found.index, "view_name", found.view_name>>)

\* msg after the statement that starts the block of a URL
StartBlock(message, url) == <<Header(url)>>

\* The for loop of resolve_project_urls
RECURSIVE Blocks(_, _, _, _)
Blocks(message, a, found, k) ==
    IF k > Len(found) THEN message
    ELSE Blocks(Append(StartBlock(message, found[k].url), Body(a, found[k])), a, found, k + 1)

Report ==
    /\ pc = "report"
    /\ \E flags \in Flags :
       LET blocks == Blocks(<<>>, flags, possible_url_paths, 1)
       IN  msg' = IF possible_url_paths = <<>> THEN Append(blocks, NotFound) ELSE blocks
    /\ pc' = "done"
    /\ UNCHANGED <<fs, args, todo, project_settings, urlconfs, searched_urls, next_setting,
                   workers, inqueue, outqueue, configured, task_results, possible_url_paths,
                   exc>>

Next ==
    \/ Main
    \/ GetProjectSettings
    \/ InitUrlconfs
    \/ GetUrlconfsPaths
    \/ InitDone
    \/ FindUrls
    \/ Apply
    \/ Get
    \/ \E w \in DOMAIN workers : WorkerTake(w)
    \/ \E w \in DOMAIN workers : WorkerConfigure(w)
    \/ \E w \in DOMAIN workers : WorkerLoop(w)
    \/ \E w \in DOMAIN workers : WorkerReturn(w)
    \/ \E w \in DOMAIN workers : WorkerRaise(w)
    \/ CloseJoin
    \/ Merge
    \/ Report

Spec == Init /\ [][Next]_vars

\* The processes run: a step that can be taken is taken
FairSpec == Spec /\ WF_vars(Next)

----------------------------------------------------------------------------
(* The claims.                                                             *)

Headers == { i \in DOMAIN msg : msg[i].piece = "header" }

\* C1: the printed report holds one block for every URL Project.find_urls found.
C1_OneBlockPerFoundUrl ==
    pc = "done" =>
        /\ Cardinality(Headers) = Len(possible_url_paths)
        /\ \A k \in DOMAIN possible_url_paths :
               \E i \in Headers : msg[i].url = possible_url_paths[k].url

\* A worker inside ProjectSetting.find_urls
Busy(w) == workers[w].state \in {"configure", "loop", "return", "raised"}

\* C2: in a settings module that configured, a failing pair never prevents the pairs
\* after it from being attempted: find_urls never ends by an exception while pairs of
\* the product remain.
C2_EveryPairAttempted ==
    \A w \in DOMAIN workers :
        (workers[w].state = "raised" /\ configured[workers[w].task]) =>
            workers[w].i >= Len(workers[w].pairs)

\* C3: no worker process of the pool runs find_urls for two different settings modules.
C3_OneSettingsModulePerWorker ==
    \A w \in DOMAIN workers : Cardinality(workers[w].settings_modules) <= 1

LookupsOverlap == \E v, w \in DOMAIN workers : v # w /\ Busy(v) /\ Busy(w)

TwoSettingsModules ==
    \E j, k \in DOMAIN project_settings :
        project_settings[j].dotted_path # project_settings[k].dotted_path

\* C4: with two settings modules or more, the lookups of two of them are in progress
\* at the same time at some point of the run, unless an exception ends it first.
C4_LookupsOverlap == (pc = "apply" /\ TwoSettingsModules) ~> (LookupsOverlap \/ pc = "raised")

\* What the pool does instead: at most one lookup is in progress in every state.
C4_OneLookupAtATime == ~LookupsOverlap

\* The urlconfs the walk finds, stated on the tree
WalkedUrlconfs ==
    { ToDottedPath(f.path) : f \in
        { f \in fs :
            \/ /\ ~f.dir
               /\ Suffix(f.path) = ".py"
               /\ Matches(Name(f.path), "urls")
               /\ ~PartofDisregardedPaths(f.path)
            \/ /\ Suffix(f.path) = ".py"
               /\ Len(f.path) > 1
               /\ Matches(Name(Parent(f.path)), "urls")
               /\ Dir(Parent(f.path)) \in fs
               /\ ~PartofDisregardedPaths(Parent(f.path)) } }

\* Every dict of results the program holds
AllResults ==
    { workers[w].results : w \in DOMAIN workers }
        \cup { outqueue[k].value : k \in DOMAIN outqueue }
        \cup Range(task_results)
        \cup {possible_url_paths}

\* The urlconfs the lookups in progress hand to resolve()
SearchedUrlconfs(w) == { workers[w].pairs[k].urlconf : k \in DOMAIN workers[w].pairs }

InitOver == pc \notin {"main", "get_project_settings", "get_urlconfs_paths"}

\* C5: a urlconf given by --conf is the only one searched and the one of every entry
\* of the result; without --conf the urlconfs searched are those the walk finds.
C5_UrlconfsSearched ==
    InitOver =>
        IF args.urlconf # None /\ args.urlconf[1] # <<>>
        THEN /\ urlconfs = <<args.urlconf[1]>>
             /\ \A w \in DOMAIN workers :
                    Busy(w) => SearchedUrlconfs(w) = {args.urlconf[1]}
             /\ \A d \in AllResults : \A k \in DOMAIN d : d[k].urlconf = args.urlconf[1]
        ELSE /\ Range(urlconfs) = WalkedUrlconfs
             /\ \A w \in DOMAIN workers :
                    Busy(w) => SearchedUrlconfs(w) = WalkedUrlconfs

C5_Witness ==
    /\ pc = "done"
    /\ args.urlconf = Some(ConfGiven)
    /\ WalkedUrlconfs # {}
    /\ possible_url_paths # <<>>

NothingResolved == \A k \in DOMAIN task_results : task_results[k] = <<>>

\* C6: when no URL is resolved the program ends normally and prints exactly "URL
\* couldn't be found."; when one is, the output does not hold that message.
C6_NotFoundMessage ==
    /\ (pc \in {"done", "raised"} /\ NothingResolved) => (pc = "done" /\ msg = <<NotFound>>)
    /\ (pc = "done" /\ ~NothingResolved) => NotFound \notin Range(msg)

ConfiguredResults ==
    SelectSeq([k \in DOMAIN task_results |-> [value |-> task_results[k], k |-> k]],
              LAMBDA r : configured[r.k])

\* C7: a settings module whose configuration fails with a caught exception makes no
\* resolution attempt, returns an empty result and does not end the run; the merged
\* result is the merge of the results of the settings modules that configured.
C7_FailedSettingContributesNothing ==
    /\ \A w \in DOMAIN workers :
        /\ workers[w].state = "return" =>
               /\ ~configured[workers[w].task]
               /\ workers[w].results = <<>>
               /\ workers[w].i = 1
        /\ workers[w].state = "loop" => configured[workers[w].task]
    /\ \A k \in DOMAIN task_results : ~configured[k] => task_results[k] = <<>>
    /\ exc \notin {"AttributeError", "ImproperlyConfigured", "AppRegistryNotReady"}
    /\ pc \in {"report", "done"} =>
           possible_url_paths =
               MergeResults(<<>>, [k \in DOMAIN ConfiguredResults |->
                                      ConfiguredResults[k].value], 1)

C7_Witness ==
    /\ pc = "done"
    /\ \E j, k \in DOMAIN task_results :
        /\ ~configured[j]
        /\ configured[k]
        /\ j < k
        /\ task_results[k] # <<>>
    /\ possible_url_paths # <<>>

\* C8: nothing discovered lies under a disregarded path, and each settings file is
\* listed once.
C8_Discovery ==
    /\ \A k \in DOMAIN project_settings :
           ~PartofDisregardedPaths(project_settings[k].setting_path)
    /\ ~Truthy(UrlconfsArgument) =>
           \A k \in DOMAIN urlconfs : ~PartofDisregardedPaths(urlconfs[k])
    /\ \A j, k \in DOMAIN project_settings :
           project_settings[j].setting_path = project_settings[k].setting_path => j = k

====
